---- MODULE Spec2Model ----
(***************************************************************************)
(* msp-webhook: a SignalK plugin that samples metrics on a wall-clock      *)
(* aligned timer, POSTs each record to a webhook, stores a record whose    *)
(* POST failed in offlineData.json and resends the stored records after    *)
(* the next POST that succeeds (src/plugin/index.js).                      *)
(*                                                                         *)
(* The specifications share the definitions below; the main ones are:      *)
(*   Spec      - the plugin with every interleaving of timer callbacks and *)
(*               promise callbacks, started with a backlog file this       *)
(*               program can have left behind (absent, truncated, a list); *)
(*   SpecSeq   - the same handlers run one operation at a time (a tick     *)
(*               fires only when no send and no drain is outstanding),     *)
(*               over every content of the backlog file and with a backlog *)
(*               left by an earlier run;                                   *)
(*   SpecSched - the timer arithmetic of start() on a millisecond clock.   *)
(*   SpecRec   - the record a tick builds from settings, deltas and bus;   *)
(*   SpecAll   - Spec over every file content; SpecDisk - Spec with a disk *)
(*               whose writes can fail.                                    *)
(* A record is identified by the tick that built it (its datetime).        *)
(***************************************************************************)
EXTENDS Integers, Sequences, FiniteSets, TLC

\* ---- bounds ----
MaxTicks ==
    3
MaxStarts ==
    2
MaxOld ==
    3
MaxSchedTicks ==
    3

Ticks ==
    1..MaxTicks
OldRecords ==
    {100 + i : i \in 1..MaxOld}

VARIABLES
    file,          \* content of offlineData.json: [kind, q]
    isConnected,   \* module-level flag
    timers,        \* one timer chain per start(): [phase, urlOk]
    running,       \* host lifecycle: start() called and stop() not yet
    unsubscribes,  \* closure list of unsubscribe callbacks (start ids)
    unsubCalls,    \* how often each subscription's unsubscribe ran
    nticks,        \* ticks fired so far (= id of the latest record)
    sends,         \* per record: state of the tick's POST
    drainSt,       \* per tick: state of the drain its success started
    drainQ,        \* per tick: the list that drain loaded
    escaped,       \* exceptions that left every handler of the plugin
    resentOk,      \* records of which a resend reported success
    lastDrain,     \* list and per-entry results of the latest settled drain
    file0,         \* the file content at process start
    lastSend,      \* HTTP outcome of the latest settled tick POST
    disk,          \* how fs.writeFileSync currently ends: ok/refused/partial
    writeErrors,   \* a write error has been caught and logged
    settings,      \* SpecRec: enabled flag of every metric
    dataStore,     \* SpecRec: the closure object data of start()
    selfPath,      \* SpecRec: what app.getSelfPath returns per metric
    dataToSend,    \* SpecRec: the record built by the latest tick
    pushLog,       \* SpecRec: the deltas delivered since start()
    atTick,        \* SpecRec: pushLog and selfPath when that tick ran
    recPhase,      \* SpecRec: "off" | "new" | "started"
    startAt,       \* SpecSched: wall-clock instant of start()
    sendFreq,      \* SpecSched: settings.sendFreq (minutes)
    initialDelay,  \* SpecSched: value returned by getDelayUntilNextInterval
    schedPhase,    \* SpecSched: "new" | "timeout" | "interval"
    tickAt,        \* SpecSched: ms since the start hour of the latest tick
    schedTicks     \* SpecSched: ticks fired

mainVars ==
    <<file, isConnected, timers, running, unsubscribes, unsubCalls, nticks,
      sends, drainSt, drainQ, escaped, resentOk, lastDrain, file0,
      lastSend, disk, writeErrors>>
schedVars ==
    <<startAt, sendFreq, initialDelay, schedPhase, tickAt, schedTicks>>
recVars ==
    <<settings, dataStore, selfPath, dataToSend, pushLog, atTick, recPhase>>
vars ==
    <<file, isConnected, timers, running, unsubscribes, unsubCalls, nticks,
      sends, drainSt, drainQ, escaped, resentOk, lastDrain, file0,
      lastSend, disk, writeErrors,
      startAt, sendFreq, initialDelay, schedPhase, tickAt, schedTicks,
      settings, dataStore, selfPath, dataToSend, pushLog, atTick, recPhase>>

\* ---- helpers ----
Range(s) ==
    {s[i] : i \in 1..Len(s)}

ListFile(q) ==
    [kind |-> "list", q |-> q]

\* ---- durable backlog (offlineData.json) ----
\* File contents: "absent" (no file), "invalid" (text JSON.parse rejects, or
\* a read error), "object" (JSON that is not a list and has no length: {},
\* a number, a boolean), "null" (JSON null, whose .length throws), "list".

\* loadOfflineData: the parsed JSON value, or [] when absent / on any error.
LoadOfflineData(f) ==
    IF f.kind \in {"absent", "invalid"} THEN ListFile(<<>>) ELSE f

\* fs.writeFileSync(path, text) opens the file with flag "w", which empties
\* it, and then writes.  disk = "ok": the text is written; "refused": the
\* open throws (EACCES, EROFS) and the file is untouched; "partial": the write
\* throws after the open (ENOSPC, EIO) and leaves a cut-off, unparseable file.
WriteFileSync(f, q) ==
    CASE disk = "ok" -> ListFile(q)
      [] disk = "refused" -> f
      [] disk = "partial" -> [kind |-> "invalid", q |-> <<>>]

\* saveOfflineData: writeFileSync of the serialised list inside try/catch.
SaveOfflineData(f, offlineDataQueue) ==
    WriteFileSync(f, offlineDataQueue)

\* clearOfflineData: writeFileSync of "[]" inside try/catch.
ClearOfflineData(f) ==
    WriteFileSync(f, <<>>)

\* Variant of appendToOfflineStorage that puts the record at the head of the
\* list (unshift instead of push).
AppendToOfflineStorage_Unshift(f, data) ==
    LET offlineDataQueue == LoadOfflineData(f)
    IN  IF offlineDataQueue.kind = "list"
        THEN [file |-> SaveOfflineData(f, <<data>> \o offlineDataQueue.q),
              raised |-> FALSE]
        ELSE [file |-> f, raised |-> TRUE]

\* Variant of appendToOfflineStorage that takes any parsed value that is not
\* a list for an empty list.
AppendToOfflineStorage_AnyAsEmpty(f, data) ==
    LET offlineDataQueue == LoadOfflineData(f)
    IN  IF offlineDataQueue.kind = "list"
        THEN [file |-> SaveOfflineData(f, Append(offlineDataQueue.q, data)),
              raised |-> FALSE]
        ELSE [file |-> SaveOfflineData(f, <<data>>), raised |-> FALSE]

\* appendToOfflineStorage: load, push, save.  push exists only on a list; on
\* any other parsed value the call throws a TypeError before saving.
AppendToOfflineStorage(f, data) ==
    LET offlineDataQueue == LoadOfflineData(f)
    IN  IF offlineDataQueue.kind = "list"
        THEN [file |-> SaveOfflineData(f, Append(offlineDataQueue.q, data)),
              raised |-> FALSE]
        ELSE [file |-> f, raised |-> TRUE]

\* Variant of resendOfflineData that drains only when the previous send had
\* failed (isConnected still false when the success arrives).
ResendOfflineDataLoad_OnlyAfterFailure(f) ==
    LET offlineDataQueue == LoadOfflineData(f)
    IN  IF offlineDataQueue.kind = "null" THEN [r |-> "throws", q |-> <<>>]
        ELSE IF offlineDataQueue.kind = "list" /\ Len(offlineDataQueue.q) > 0
                /\ ~isConnected
             THEN [r |-> "started", q |-> offlineDataQueue.q]
             ELSE [r |-> "noop", q |-> <<>>]

\* Variant of resendOfflineData without the length test: an empty list is
\* resent and rewritten like any other.
ResendOfflineDataLoad_NoLengthTest(f) ==
    LET offlineDataQueue == LoadOfflineData(f)
    IN  IF offlineDataQueue.kind = "null" THEN [r |-> "throws", q |-> <<>>]
        ELSE IF offlineDataQueue.kind = "list"
             THEN [r |-> "started", q |-> offlineDataQueue.q]
             ELSE [r |-> "noop", q |-> <<>>]

\* resendOfflineData up to the point where the resends are issued:
\* "throws" (null.length), "noop" (length not > 0), "started" with the list.
ResendOfflineDataLoad(f) ==
    LET offlineDataQueue == LoadOfflineData(f)
    IN  IF offlineDataQueue.kind = "null" THEN [r |-> "throws", q |-> <<>>]
        ELSE IF offlineDataQueue.kind = "list" /\ Len(offlineDataQueue.q) > 0
             THEN [r |-> "started", q |-> offlineDataQueue.q]
             ELSE [r |-> "noop", q |-> <<>>]

ResendOutcomes ==
    {"fulfilled", "rejected"}

\* offlineDataQueue.filter((_, index) => results[index].status === "rejected")
RECURSIVE FilterRejected(_, _, _)
FilterRejected(q, results, i) ==
    IF i > Len(q) THEN <<>>
    ELSE IF results[i] = "rejected"
         THEN <<q[i]>> \o FilterRejected(q, results, i + 1)
         ELSE FilterRejected(q, results, i + 1)

\* results.filter(result => result.status === "fulfilled").length
SuccessfulSends(results) ==
    Cardinality({i \in 1..Len(results) : results[i] = "fulfilled"})

\* Variant of the continuation with Promise.all in place of
\* Promise.allSettled: one rejected resend skips the rewrite altogether.
ResendRewrite_PromiseAll(f, offlineDataQueue, results) ==
    IF SuccessfulSends(results) = Len(offlineDataQueue)
    THEN ClearOfflineData(f)
    ELSE f

\* Variant of the continuation that writes the rejected entries after the
\* present content of the file instead of in its place.
ResendRewrite_KeepsPresent(f, offlineDataQueue, results) ==
    IF SuccessfulSends(results) = Len(offlineDataQueue)
    THEN ClearOfflineData(f)
    ELSE SaveOfflineData(f, LoadOfflineData(f).q
                            \o FilterRejected(offlineDataQueue, results, 1))

\* The Promise.allSettled continuation of resendOfflineData: the new file.
ResendRewrite(f, offlineDataQueue, results) ==
    IF SuccessfulSends(results) = Len(offlineDataQueue)
    THEN ClearOfflineData(f)
    ELSE SaveOfflineData(f, FilterRejected(offlineDataQueue, results, 1))

\* ---- HTTP outcomes of a tick's POST ----
\* "2xx": response.ok and body read; "non2xx": !response.ok (throws in the
\* then-handler); "error": fetch or response.text() rejects.
HttpOutcomes ==
    {"2xx", "non2xx", "error"}

NoDrain ==
    [q |-> <<>>, res |-> <<>>]

\* ---- plugin.start / plugin.stop ----
\* start(settings): subscribe (the bus pushes one unsubscribe callback) and
\* arm the initial timeout.  urlOk: whether new URL(settings.webhookUrl)
\* parses.  The host calls start() on a stopped plugin.
Start(urlOk) ==
    /\ ~running
    /\ Len(timers) < MaxStarts
    /\ running' = TRUE
    /\ timers' = Append(timers, [phase |-> "timeout", urlOk |-> urlOk])
    /\ unsubscribes' = Append(unsubscribes, Len(timers) + 1)
    /\ UNCHANGED <<file, isConnected, unsubCalls, nticks, sends, drainSt,
                   drainQ, escaped, resentOk, lastDrain, file0,
                   lastSend, disk, writeErrors>>
    /\ UNCHANGED schedVars
    /\ UNCHANGED recVars

\* Variant of stop() that calls the callbacks but keeps them in the list.
Stop_KeepsList ==
    /\ running
    /\ running' = FALSE
    /\ unsubCalls' = [s \in DOMAIN unsubCalls |->
                        unsubCalls[s]
                        + Cardinality({i \in 1..Len(unsubscribes) :
                                         unsubscribes[i] = s})]
    /\ unsubscribes' = unsubscribes
    /\ UNCHANGED <<file, isConnected, timers, nticks, sends, drainSt, drainQ,
                   escaped, resentOk, lastDrain, file0,
                   lastSend, disk, writeErrors>>
    /\ UNCHANGED schedVars
    /\ UNCHANGED recVars

\* stop(): call every unsubscribe, empty the list.  No timer is cleared.
Stop ==
    /\ running
    /\ running' = FALSE
    /\ unsubCalls' = [s \in DOMAIN unsubCalls |->
                        unsubCalls[s]
                        + Cardinality({i \in 1..Len(unsubscribes) :
                                         unsubscribes[i] = s})]
    /\ unsubscribes' = <<>>
    /\ UNCHANGED <<file, isConnected, timers, nticks, sends, drainSt, drainQ,
                   escaped, resentOk, lastDrain, file0,
                   lastSend, disk, writeErrors>>
    /\ UNCHANGED schedVars
    /\ UNCHANGED recVars

\* ---- ticks ----
\* Variant of sendPeriodicData that sends only while isConnected is true.
SendPeriodicData_OnlyWhenConnected(i) ==
    /\ nticks < MaxTicks
    /\ nticks' = nticks + 1
    /\ IF ~isConnected
       THEN /\ sends' = sends
            /\ escaped' = escaped
       ELSE IF timers[i].urlOk
       THEN /\ sends' = [sends EXCEPT ![nticks + 1] = "inflight"]
            /\ escaped' = escaped
       ELSE /\ sends' = [sends EXCEPT ![nticks + 1] = "threw"]
            /\ escaped' = escaped \cup {"timer"}

\* sendPeriodicData + the synchronous part of sendDataToWebhook: build the
\* record, new URL(webhookUrl) (throws on an unparsable URL), issue the POST.
SendPeriodicData(i) ==
    /\ nticks < MaxTicks
    /\ nticks' = nticks + 1
    /\ IF timers[i].urlOk
       THEN /\ sends' = [sends EXCEPT ![nticks + 1] = "inflight"]
            /\ escaped' = escaped
       ELSE /\ sends' = [sends EXCEPT ![nticks + 1] = "threw"]
            /\ escaped' = escaped \cup {"timer"}

\* The setTimeout callback: sendPeriodicData(), then setInterval(...).  When
\* sendPeriodicData throws, setInterval is never reached.
InitialTimeout(i) ==
    /\ i \in 1..Len(timers)
    /\ timers[i].phase = "timeout"
    /\ SendPeriodicData(i)
    /\ timers' = [timers EXCEPT ![i].phase =
                    IF timers[i].urlOk THEN "interval" ELSE "dead"]
    /\ UNCHANGED <<file, isConnected, running, unsubscribes, unsubCalls,
                   drainSt, drainQ, resentOk, lastDrain, file0,
                   lastSend, disk, writeErrors>>
    /\ UNCHANGED schedVars
    /\ UNCHANGED recVars

\* The setInterval callback.
IntervalTick(i) ==
    /\ i \in 1..Len(timers)
    /\ timers[i].phase = "interval"
    /\ SendPeriodicData(i)
    /\ UNCHANGED <<file, isConnected, timers, running, unsubscribes,
                   unsubCalls, drainSt, drainQ, resentOk, lastDrain, file0,
                   lastSend, disk, writeErrors>>
    /\ UNCHANGED schedVars
    /\ UNCHANGED recVars

\* ---- completion of a tick's POST ----
\* Variant of the catch handler that stores the record but leaves
\* isConnected as it was.
SendFailed_KeepsFlag(r) ==
    LET a == AppendToOfflineStorage(file, r)
    IN  /\ isConnected' = isConnected
        /\ file' = a.file
        /\ escaped' = IF a.raised THEN escaped \cup {"promise"} ELSE escaped
        /\ writeErrors' = (writeErrors \/ (~a.raised /\ disk # "ok"))

\* The catch handler of sendDataToWebhook: isConnected = false, append the
\* record; a throw of the append is an unhandled rejection.
SendFailed(r) ==
    LET a == AppendToOfflineStorage(file, r)
    IN  /\ isConnected' = FALSE
        /\ file' = a.file
        /\ escaped' = IF a.raised THEN escaped \cup {"promise"} ELSE escaped
        /\ writeErrors' = (writeErrors \/ (~a.raised /\ disk # "ok"))

\* The then/catch chain of sendDataToWebhook for record r.
SendSettle(r, outcome) ==
    /\ r \in Ticks
    /\ sends[r] = "inflight"
    /\ IF outcome = "2xx"
       THEN LET d == ResendOfflineDataLoad(file)
            IN  /\ sends' = [sends EXCEPT ![r] = "ok"]
                /\ IF d.r = "throws"
                   THEN \* thrown inside the then-handler: the catch runs
                        /\ SendFailed(r)
                        /\ UNCHANGED <<drainSt, drainQ>>
                   ELSE /\ isConnected' = TRUE
                        /\ drainSt' = [drainSt EXCEPT ![r] =
                                IF d.r = "started" THEN "inflight" ELSE "noop"]
                        /\ drainQ' = [drainQ EXCEPT ![r] = d.q]
                        /\ UNCHANGED <<file, escaped, writeErrors>>
       ELSE /\ sends' = [sends EXCEPT ![r] = "failed"]
            /\ SendFailed(r)
            /\ UNCHANGED <<drainSt, drainQ>>
    /\ lastSend' = outcome
    /\ UNCHANGED <<timers, running, unsubscribes, unsubCalls, nticks,
                   resentOk, lastDrain, file0, disk>>
    /\ UNCHANGED schedVars
    /\ UNCHANGED recVars

\* ---- completion of a drain ----
\* Promise.allSettled(sendPromises).then(...): every resend has settled with
\* its own outcome; the file is cleared or rewritten from the loaded list.
DrainSettle(t, results) ==
    /\ t \in Ticks
    /\ drainSt[t] = "inflight"
    /\ results \in [1..Len(drainQ[t]) -> ResendOutcomes]
    /\ file' = ResendRewrite(file, drainQ[t], results)
    /\ drainSt' = [drainSt EXCEPT ![t] = "done"]
    /\ drainQ' = [drainQ EXCEPT ![t] = <<>>]
    /\ resentOk' = resentOk \cup {drainQ[t][i] : i \in
                        {j \in 1..Len(drainQ[t]) : results[j] = "fulfilled"}}
    /\ lastDrain' = [q |-> drainQ[t], res |-> results]
    /\ writeErrors' = (writeErrors \/ disk # "ok")
    /\ UNCHANGED <<isConnected, timers, running, unsubscribes, unsubCalls,
                   nticks, sends, escaped, file0, lastSend, disk>>
    /\ UNCHANGED schedVars
    /\ UNCHANGED recVars

DrainSettles(t) ==
    \E results \in [1..Len(drainQ[t]) -> ResendOutcomes] :
        DrainSettle(t, results)

\* ---- building the record (SpecRec) ----
MaxPushes ==
    2

\* KEYS: metric identifier -> bus path.
Metrics ==
    {"position", "speed", "heading", "log", "depth", "wTemp", "windSpeed",
     "windDir", "pressure"}
KEYS ==
    [k \in Metrics |->
        CASE k = "position" -> "navigation.position"
          [] k = "speed" -> "navigation.speedOverGround"
          [] k = "heading" -> "navigation.headingTrue"
          [] k = "log" -> "navigation.trip.log"
          [] k = "depth" -> "environment.depth.belowTransducer"
          [] k = "wTemp" -> "environment.water.temperature"
          [] k = "windSpeed" -> "environment.wind.speedApparent"
          [] k = "windDir" -> "environment.wind.angleApparent"
          [] k = "pressure" -> "environment.pressure"]
\* The paths a delta can carry: the nine of KEYS and one the plugin ignores.
BusPaths ==
    {KEYS[k] : k \in Metrics} \cup {"navigation.other"}

\* An Observation {value, unit}, or null.
NullObs ==
    [null |-> TRUE, value |-> 0, unit |-> "undefined"]
Obs(value, unit) ==
    [null |-> FALSE, value |-> value, unit |-> unit]
\* The string placed under the key datetime (getCurrentDateTime()).
DateTimeObs ==
    [null |-> FALSE, value |-> 0, unit |-> "datetime"]

\* getKeyValue(key): null when the bus has nothing, else {value, meta.units}.
GetKeyValue(path) ==
    IF ~selfPath[path].present THEN NullObs
    ELSE Obs(selfPath[path].value, selfPath[path].units)

\* Object.keys(KEYS).find((k) => KEYS[k] === value.path): a set with the key,
\* or empty when the path is none of KEYS.
KeyOfPath(path) ==
    {k \in Metrics : KEYS[k] = path}

\* The enabled metrics: settings[key.split(".").pop()] is truthy.
EnabledKeys(st) ==
    {k \in Metrics : st[k]}

\* Variant of the record that also carries every metric the bus has pushed.
BuildRecord_AllPushed(st, store) ==
    [k \in EnabledKeys(st) \cup DOMAIN store \cup {"datetime"} |->
        IF k = "datetime" THEN DateTimeObs
        ELSE IF k \in DOMAIN store THEN store[k] ELSE GetKeyValue(KEYS[k])]

\* Variant of the record that asks the bus first and uses the pushed
\* Observation only when the bus has nothing.
BuildRecord_QueryFirst(st, store) ==
    [k \in EnabledKeys(st) \cup {"datetime"} |->
        IF k = "datetime" THEN DateTimeObs
        ELSE IF GetKeyValue(KEYS[k]).null /\ k \in DOMAIN store
             THEN store[k] ELSE GetKeyValue(KEYS[k])]

\* sendPeriodicData: dataToSend[key] = data[key] || getKeyValue(path) for
\* every enabled key, then dataToSend.datetime.
BuildRecord(st, store) ==
    [k \in EnabledKeys(st) \cup {"datetime"} |->
        IF k = "datetime" THEN DateTimeObs
        ELSE IF k \in DOMAIN store THEN store[k] ELSE GetKeyValue(KEYS[k])]

\* start(settings): a fresh closure object data = {}.
RecStart(st) ==
    /\ recPhase = "new"
    /\ settings' = st
    /\ dataStore' = <<>>
    /\ recPhase' = "started"
    /\ UNCHANGED <<selfPath, dataToSend, pushLog, atTick>>
    /\ UNCHANGED mainVars
    /\ UNCHANGED schedVars

\* The delta handler, for a delta with one update carrying one value:
\* data[key] is overwritten when the path is one of KEYS, with the unit the
\* bus reports for the path at that moment.  The handler writes nothing else;
\* what getSelfPath returns is the bus's own state.
Delta(path, value) ==
    LET unit == IF selfPath[path].present THEN selfPath[path].units
                ELSE "undefined"
    IN  /\ recPhase = "started"
        /\ Len(pushLog) < MaxPushes
        /\ dataStore' =
              IF KeyOfPath(path) = {} THEN dataStore
              ELSE [k \in DOMAIN dataStore \cup KeyOfPath(path) |->
                       IF k \in KeyOfPath(path) THEN Obs(value, unit)
                       ELSE dataStore[k]]
        /\ pushLog' = Append(pushLog,
                             [path |-> path, value |-> value, unit |-> unit])
        /\ UNCHANGED <<settings, selfPath, dataToSend, atTick, recPhase>>
        /\ UNCHANGED mainVars
        /\ UNCHANGED schedVars

\* A tick: sendPeriodicData builds dataToSend.
RecTick ==
    /\ recPhase = "started"
    /\ dataToSend' = BuildRecord(settings, dataStore)
    /\ atTick' = [log |-> pushLog, bus |-> selfPath]
    /\ UNCHANGED <<settings, dataStore, selfPath, pushLog, recPhase>>
    /\ UNCHANGED mainVars
    /\ UNCHANGED schedVars

\* The bus: the navigation paths of KEYS have a value with units, the
\* environment paths and the ignored path have none.
NavigationPaths ==
    {KEYS[k] : k \in {"position", "speed", "heading", "log"}}
BusInits ==
    {[p \in BusPaths |->
        IF p \in NavigationPaths
        THEN [present |-> TRUE, value |-> 0, units |-> "u"]
        ELSE [present |-> FALSE, value |-> 0, units |-> "undefined"]]}

RecInit(bus, phase) ==
    /\ settings = [k \in Metrics |-> FALSE]
    /\ dataStore = <<>>
    /\ selfPath = bus
    /\ dataToSend = <<>>
    /\ pushLog = <<>>
    /\ atTick = [log |-> <<>>, bus |-> bus]
    /\ recPhase = phase

RecIdle ==
    \E bus \in BusInits : RecInit(bus, "off")

\* ---- initial states ----
SchedIdle ==
    /\ startAt = [m |-> 0, s |-> 0, ms |-> 0]
    /\ sendFreq = 1
    /\ initialDelay = 0
    /\ schedPhase = "off"
    /\ tickAt = 0
    /\ schedTicks = 0

MainInit(f) ==
    /\ file = f
    /\ file0 = f
    /\ isConnected = TRUE
    /\ timers = <<>>
    /\ running = FALSE
    /\ unsubscribes = <<>>
    /\ unsubCalls = [s \in 1..MaxStarts |-> 0]
    /\ nticks = 0
    /\ sends = [r \in Ticks |-> "none"]
    /\ drainSt = [t \in Ticks |-> "none"]
    /\ drainQ = [t \in Ticks |-> <<>>]
    /\ escaped = {}
    /\ resentOk = {}
    /\ lastDrain = NoDrain
    /\ lastSend = "none"
    /\ disk = "ok"
    /\ writeErrors = FALSE

\* What this program leaves on disk: nothing, a list, or a file cut short by
\* a crash inside writeFileSync (never parseable: it starts with "[").
OwnFiles ==
    {[kind |-> "absent", q |-> <<>>], [kind |-> "invalid", q |-> <<>>],
     ListFile(<<>>)}

Init ==
    /\ \E f \in OwnFiles : MainInit(f)
    /\ SchedIdle
    /\ RecIdle

Next ==
    \/ \E urlOk \in BOOLEAN : Start(urlOk)
    \/ Stop
    \/ \E i \in 1..MaxStarts : InitialTimeout(i)
    \/ \E i \in 1..MaxStarts : IntervalTick(i)
    \/ \E r \in Ticks, outcome \in HttpOutcomes : SendSettle(r, outcome)
    \/ \E t \in Ticks : DrainSettles(t)

Spec ==
    Init /\ [][Next]_vars

\* ---- one operation at a time (SpecSeq) ----
\* No POST and no drain is outstanding.
Quiet ==
    \A r \in Ticks : sends[r] # "inflight" /\ drainSt[r] # "inflight"

\* The lists of distinct records an earlier run can have left behind, the
\* records named by their place in the list.
OldLists ==
    {[i \in 1..n |-> 100 + i] : n \in 0..MaxOld}

\* Every content loadOfflineData can meet.
AllFiles ==
    OwnFiles \cup {[kind |-> "object", q |-> <<>>], [kind |-> "null", q |-> <<>>]}
             \cup {ListFile(q) : q \in OldLists}

InitSeq ==
    /\ \E f \in AllFiles : MainInit(f)
    /\ SchedIdle
    /\ RecIdle

NextSeq ==
    \/ \E urlOk \in BOOLEAN : Start(urlOk)
    \/ Stop
    \/ \E i \in 1..MaxStarts : Quiet /\ InitialTimeout(i)
    \/ \E i \in 1..MaxStarts : Quiet /\ IntervalTick(i)
    \/ \E r \in Ticks, outcome \in HttpOutcomes : SendSettle(r, outcome)
    \/ \E t \in Ticks : DrainSettles(t)

SpecSeq ==
    InitSeq /\ [][NextSeq]_vars

\* ---- the scheduler on a wall clock (SpecSched) ----
\* Instants are [m, s, ms]: getMinutes(), getSeconds(), getMilliseconds() of
\* the Date read by getDelayUntilNextInterval; times are in milliseconds
\* since the top of the hour in which start() was called.
MsPerMinute ==
    60000
StartMinutes ==
    0..59
StartSeconds ==
    {0, 15, 59}
StartMillis ==
    {0, 500}
SendFreqs ==
    {1, 7, 10, 15}

Instant(now) ==
    now.m * MsPerMinute + now.s * 1000 + now.ms

\* Math.ceil(a / b) for integers a >= 0, b >= 1.
Ceil(a, b) ==
    (a + b - 1) \div b

\* getDelayUntilNextInterval(sendFreq) evaluated at instant now.
GetDelayUntilNextInterval(now, freq) ==
    LET currentMinutes == now.m
        nextInterval == Ceil(currentMinutes, freq) * freq
        minutesUntilNextInterval ==
            IF nextInterval = currentMinutes THEN 0
            ELSE nextInterval - currentMinutes
    IN  minutesUntilNextInterval * 60 * 1000 - now.s * 1000 - now.ms

\* setTimeout / setInterval run the callback after the given delay; a delay
\* below 1 ms is taken as 1 ms.
TimerDelay(d) ==
    IF d < 1 THEN 1 ELSE d

\* start(): const initialDelay = getDelayUntilNextInterval(settings.sendFreq)
SchedStart ==
    /\ schedPhase = "new"
    /\ initialDelay' = GetDelayUntilNextInterval(startAt, sendFreq)
    /\ schedPhase' = "timeout"
    /\ UNCHANGED <<startAt, sendFreq, tickAt, schedTicks>>
    /\ UNCHANGED mainVars
    /\ UNCHANGED recVars

\* The setTimeout callback fires: first tick, then setInterval.
SchedTimeout ==
    /\ schedPhase = "timeout"
    /\ tickAt' = Instant(startAt) + TimerDelay(initialDelay)
    /\ schedTicks' = 1
    /\ schedPhase' = "interval"
    /\ UNCHANGED <<startAt, sendFreq, initialDelay>>
    /\ UNCHANGED mainVars
    /\ UNCHANGED recVars

\* The setInterval callback fires sendFreq minutes after the previous tick.
SchedInterval ==
    /\ schedPhase = "interval"
    /\ schedTicks < MaxSchedTicks
    /\ tickAt' = tickAt + TimerDelay(sendFreq * 60000)
    /\ schedTicks' = schedTicks + 1
    /\ UNCHANGED <<startAt, sendFreq, initialDelay, schedPhase>>
    /\ UNCHANGED mainVars
    /\ UNCHANGED recVars

InitSched ==
    /\ MainInit(ListFile(<<>>))
    /\ startAt \in [m : StartMinutes, s : StartSeconds, ms : StartMillis]
    /\ sendFreq \in SendFreqs
    /\ initialDelay = 0
    /\ schedPhase = "new"
    /\ tickAt = 0
    /\ schedTicks = 0
    /\ RecIdle

NextSched ==
    \/ SchedStart
    \/ SchedTimeout
    \/ SchedInterval

SpecSched ==
    InitSched /\ [][NextSched]_vars

\* ---- the record of a tick (SpecRec) ----
InitRec ==
    /\ MainInit(ListFile(<<>>))
    /\ SchedIdle
    /\ \E bus \in BusInits : RecInit(bus, "new")

NextRec ==
    \/ \E st \in [Metrics -> BOOLEAN] : RecStart(st)
    \/ \E path \in BusPaths : Delta(path, Len(pushLog) + 1)
    \/ RecTick

SpecRec ==
    InitRec /\ [][NextRec]_vars

\* ---- every interleaving over every file content (SpecAll) ----
AnyFiles ==
    OwnFiles \cup {[kind |-> "object", q |-> <<>>], [kind |-> "null", q |-> <<>>],
                   ListFile(<<101>>)}

InitAll ==
    /\ \E f \in AnyFiles : MainInit(f)
    /\ SchedIdle
    /\ RecIdle

SpecAll ==
    InitAll /\ [][Next]_vars

\* ---- every interleaving with a disk whose writes can fail (SpecDisk) ----
\* The disk changes how writes end (full, read-only, repaired).
DiskChange(d) ==
    /\ d # disk
    /\ disk' = d
    /\ UNCHANGED <<file, isConnected, timers, running, unsubscribes,
                   unsubCalls, nticks, sends, drainSt, drainQ, escaped,
                   resentOk, lastDrain, file0, lastSend, writeErrors>>
    /\ UNCHANGED schedVars
    /\ UNCHANGED recVars

NextDisk ==
    \/ \E urlOk \in BOOLEAN : Start(urlOk)
    \/ Stop
    \/ \E i \in 1..MaxStarts : InitialTimeout(i)
    \/ \E i \in 1..MaxStarts : IntervalTick(i)
    \/ \E r \in Ticks, outcome \in HttpOutcomes : SendSettle(r, outcome)
    \/ \E t \in Ticks : DrainSettles(t)
    \/ \E d \in {"ok", "refused", "partial"} : DiskChange(d)

SpecDisk ==
    Init /\ [][NextDisk]_vars

\* ======================= claims =======================
Backlog(f) ==
    LoadOfflineData(f).q
InBacklog(e, f) ==
    e \in Range(Backlog(f))
Delivered(r) ==
    sends[r] = "ok" \/ r \in resentOk
Fulfilled(d) ==
    {d.q[i] : i \in {j \in 1..Len(d.q) : d.res[j] = "fulfilled"}}

\* C1: under every interleaving an entry leaves the persisted backlog only
\* in a step after which a resend of that very entry has reported success.
C1_RemovedOnlyAfterConfirmedResend ==
    [][\A e \in Range(Backlog(file)) :
          ~InBacklog(e, file') => e \in resentOk']_vars

\* C2: at-least-once delivery, in the form a finite run refutes: a record
\* whose POST failed is confirmed by a resend, or still persisted, or still
\* carried by an outstanding drain.  A record that is none of these is
\* resent by nothing, so it is never delivered however long ticks keep
\* firing and the endpoint keeps accepting.
C2_FailedRecordDeliveredOrRetained ==
    \A r \in Ticks :
        sends[r] = "failed" =>
            \/ r \in resentOk
            \/ InBacklog(r, file)
            \/ \E t \in Ticks : drainSt[t] = "inflight" /\ r \in Range(drainQ[t])

\* C5: end to end.  The step in which a tick's send fails sets isConnected
\* to false and lengthens the backlog by exactly 1; the step in which a
\* tick's send succeeds sets isConnected to true and the record counts as
\* delivered; the step in which the drain settles removes from the backlog
\* every entry whose resend succeeded.
C5_EndToEnd ==
    [][\A r \in Ticks :
          /\ (sends[r] = "inflight" /\ sends'[r] = "failed") =>
                /\ isConnected' = FALSE
                /\ Len(Backlog(file')) = Len(Backlog(file)) + 1
          /\ (sends[r] = "inflight" /\ sends'[r] = "ok") =>
                /\ isConnected' = TRUE
                /\ Delivered(r)'
          /\ (drainSt[r] = "inflight" /\ drainSt'[r] = "done") =>
                \A e \in Fulfilled(lastDrain') : ~InBacklog(e, file')]_vars

\* C5 witness: tick 1 failed and was stored, tick 2 succeeded, its drain
\* resent record 1 with success and the backlog is empty again.
C5_Witness ==
    /\ sends[1] = "failed" /\ sends[2] = "ok" /\ drainSt[2] = "done"
    /\ lastDrain = [q |-> <<1>>, res |-> <<"fulfilled">>]
    /\ isConnected /\ file = ListFile(<<>>)

\* C7: no exception leaves a tick, whatever the configuration, and the timer
\* chain of every start() stays alive.
C7_NoExceptionEscapesTick ==
    /\ escaped = {}
    /\ \A i \in 1..Len(timers) : timers[i].phase # "dead"

\* C8: once stop() has returned (and until the next start()) no tick fires
\* and no send is issued.
C8_NoTickAfterStop ==
    [][~running => nticks' = nticks /\ sends' = sends]_vars

\* C10: once the initial delay of a start() has elapsed its interval tick
\* can fire, whatever the state of earlier sends and drains.
C10_TickEveryInterval ==
    \A i \in 1..Len(timers) :
        (timers[i].phase # "timeout" /\ nticks < MaxTicks) =>
            ENABLED IntervalTick(i)

\* ---- claims about one operation at a time (SpecSeq) ----
\* The entries of L whose resend was rejected, in the order of L, defined by
\* position: the k-th element is L at the k-th rejected index.
RejectedIdx(res) ==
    {i \in 1..Len(res) : res[i] = "rejected"}
FailedSubsequence(L, res) ==
    [k \in 1..Cardinality(RejectedIdx(res)) |->
        L[CHOOSE i \in RejectedIdx(res) :
            Cardinality({j \in RejectedIdx(res) : j <= i}) = k]]

\* C3: a drain over a non-empty backlog L with no interleaved write: every
\* entry got its own settled resend, and the file afterwards is the list of
\* the entries of L whose resend failed, in L's order.
C3_DrainKeepsFailedSubsequence ==
    [][\A t \in Ticks :
          (drainSt[t] = "inflight" /\ drainSt'[t] = "done") =>
              /\ file.kind = "list" /\ Len(file.q) > 0
              /\ lastDrain'.q = file.q
              /\ DOMAIN lastDrain'.res = 1..Len(file.q)
              /\ \A i \in 1..Len(file.q) : lastDrain'.res[i] \in ResendOutcomes
              /\ file' = ListFile(FailedSubsequence(file.q, lastDrain'.res))]_vars

\* C3 witness: [A,B,C] with only B failing left [B].
C3_Witness ==
    /\ lastDrain = [q |-> <<101, 102, 103>>,
                    res |-> <<"fulfilled", "rejected", "fulfilled">>]
    /\ file = ListFile(<<102>>)
    /\ Quiet

\* C4: round trip from an empty backlog.  After N failed ticks and nothing
\* else the backlog is <<1..N>>; after the drain started by tick N+1 it is
\* empty if every resend succeeded and <<1..N>> if every resend failed.
OnlyAppends(n) ==
    /\ Backlog(file0) = <<>>
    /\ file0.kind \in {"absent", "invalid", "list"}
    /\ \A k \in 1..n : sends[k] = "failed"
C4_RoundTrip ==
    /\ (OnlyAppends(nticks) =>
            file = ListFile([k \in 1..nticks |-> k]) \/ nticks = 0)
    /\ \A n \in 0..(MaxTicks - 1) :
         (OnlyAppends(n) /\ nticks = n + 1 /\ sends[n + 1] = "ok"
            /\ drainSt[n + 1] = "done") =>
              /\ (\A i \in 1..n : lastDrain.res[i] = "fulfilled") =>
                    file = ListFile(<<>>)
              /\ (\A i \in 1..n : lastDrain.res[i] = "rejected") =>
                    file = ListFile([k \in 1..n |-> k])

\* C4 witness: two appends, then a drain in which both resends failed.
C4_Witness ==
    /\ OnlyAppends(2) /\ nticks = 3 /\ sends[3] = "ok" /\ drainSt[3] = "done"
    /\ lastDrain.res = <<"rejected", "rejected">>
    /\ file = ListFile(<<1, 2>>)

\* C6: an append that meets a file which is not a well-formed list (absent,
\* unparseable, or JSON that is not a list) raises nothing and leaves the
\* one-element backlog holding the appended record.
C6_AppendToleratesAnyContent ==
    [][\A r \in Ticks :
          (sends[r] = "inflight" /\ sends'[r] = "failed" /\ file.kind # "list") =>
              /\ escaped' = escaped
              /\ file' = ListFile(<<r>>)]_vars

\* ---- claims about the scheduler (SpecSched) ----
\* t (ms since the start hour) is an instant whose minute is a multiple of
\* freq, with zero seconds and milliseconds.
OnBoundary(t, freq) ==
    /\ t % MsPerMinute = 0
    /\ ((t \div MsPerMinute) % 60) % freq = 0
\* The first boundary at or after t (minute 60, the next full hour, is one).
NextBoundary(t, freq) ==
    CHOOSE b \in {k * MsPerMinute : k \in 0..60} :
        /\ b >= t /\ OnBoundary(b, freq)
        /\ \A k \in 0..60 :
              (k * MsPerMinute >= t /\ OnBoundary(k * MsPerMinute, freq))
                  => b <= k * MsPerMinute

\* C9: the initial delay is non-negative and is the time left until the next
\* boundary, and every tick fires on a boundary.
C9_DelayReachesNextBoundary ==
    /\ schedPhase \in {"timeout", "interval"} =>
          /\ initialDelay >= 0
          /\ initialDelay = NextBoundary(Instant(startAt), sendFreq)
                              - Instant(startAt)
    /\ schedTicks > 0 => OnBoundary(tickAt, sendFreq)

\* ---- claims about connectivity, ticks and drains (Spec) ----
SendSettled(r) ==
    sends[r] = "inflight" /\ sends'[r] \in {"ok", "failed"}
NoSendInFlight ==
    \A r \in Ticks : sends[r] # "inflight"

\* C11: isConnected changes only in a step in which a tick send settles, and
\* whenever no tick send is in flight it tells the outcome of the latest
\* settled tick send: true after a 2xx, false after a failure.
C11_ConnectivityFollowsLastSend ==
    /\ [](NoSendInFlight /\ lastSend # "none" =>
              isConnected = (lastSend = "2xx"))
    /\ [][isConnected' # isConnected => \E r \in Ticks : SendSettled(r)]_vars

\* C11 witness: a failure, then a success whose drain had its resend
\* rejected; nothing is in flight and isConnected is still true.
C11_Witness ==
    /\ NoSendInFlight /\ lastSend = "2xx" /\ isConnected
    /\ sends[1] = "failed" /\ sends[2] = "ok" /\ drainSt[2] = "done"
    /\ lastDrain.res = <<"rejected">>

\* C12: a timer that is armed can fire whatever isConnected is, and the tick
\* hands a record that did not exist before to sendDataToWebhook; nothing
\* is skipped or postponed when isConnected is false.
C12_TickAlwaysAttempts ==
    /\ [](\A i \in 1..Len(timers) :
            nticks < MaxTicks =>
                /\ timers[i].phase = "timeout" => ENABLED InitialTimeout(i)
                /\ timers[i].phase = "interval" => ENABLED IntervalTick(i))
    /\ [][nticks' # nticks =>
            /\ nticks' = nticks + 1
            /\ sends[nticks'] = "none"
            /\ sends'[nticks'] \in {"inflight", "threw"}]_vars

\* C12 witness: two sends have failed, isConnected is false and the third
\* tick's POST is in flight.
C12_Witness ==
    /\ ~isConnected /\ sends[1] = "failed" /\ sends[2] = "failed"
    /\ sends[3] = "inflight"

\* C14: the step in which a tick send succeeds calls resendOfflineData (and
\* starts the resends of the whole backlog when it is not empty), whatever
\* isConnected was; the step in which a tick send fails starts none, and no
\* drain exists for a tick whose send did not succeed.
C14_DrainOnEverySuccess ==
    /\ [](\A r \in Ticks : drainSt[r] # "none" => sends[r] = "ok")
    /\ [][\A r \in Ticks :
            /\ (sends[r] = "inflight" /\ sends'[r] = "ok") =>
                  /\ drainSt'[r] \in {"inflight", "noop"}
                  /\ Backlog(file) # <<>> =>
                        drainSt'[r] = "inflight" /\ drainQ'[r] = Backlog(file)
            /\ (sends[r] = "inflight" /\ sends'[r] = "failed") =>
                  drainSt' = drainSt /\ drainQ' = drainQ]_vars

\* C14 witness: two successes in a row, the second one started a drain too.
C14_Witness ==
    /\ sends[1] = "failed" /\ sends[2] = "ok" /\ sends[3] = "ok"
    /\ drainSt[2] = "done" /\ drainSt[3] = "inflight" /\ drainQ[3] = <<1>>

\* C15: a tick send that fails by a non-2xx status or by a transport error
\* appends exactly its own record at the tail of the persisted backlog; the
\* entries before it are as they were.
C15_FailureAppendsOwnRecord ==
    [][\A r \in Ticks :
          (sends[r] = "inflight" /\ sends'[r] = "failed") =>
              /\ lastSend' \in {"non2xx", "error"}
              /\ file' = ListFile(Append(Backlog(file), r))]_vars

\* C15 witness: a transport error after an earlier failure; both records
\* are stored in the order of their failures.
C15_Witness ==
    /\ sends[1] = "failed" /\ sends[2] = "failed" /\ lastSend = "error"
    /\ file = ListFile(<<1, 2>>)

\* C16: resendOfflineData on an empty persisted list does nothing: no resend
\* is outstanding or reported, the file is exactly as it was, no exception
\* leaves, and isConnected keeps the value the success handler just set.
C16_EmptyDrainIsNoop ==
    [][\A r \in Ticks :
          (sends[r] = "inflight" /\ sends'[r] = "ok" /\ Backlog(file) = <<>>
              /\ file.kind \in {"absent", "invalid", "list"}) =>
              /\ file' = file
              /\ drainSt'[r] = "noop" /\ drainQ'[r] = <<>>
              /\ resentOk' = resentOk /\ lastDrain' = lastDrain
              /\ escaped' = escaped /\ writeErrors' = writeErrors
              /\ isConnected' = TRUE]_vars

\* C16 witness: a success over a missing file: still no file, no drain.
C16_Witness ==
    /\ sends[1] = "ok" /\ drainSt[1] = "noop" /\ file.kind = "absent"
    /\ isConnected /\ resentOk = {} /\ escaped = {}

\* C17: while the plugin is stopped the list of callbacks is empty and the
\* unsubscribe callback of every start() so far has run exactly once.
C17_StopReleasesSubscriptions ==
    ~running =>
        /\ unsubscribes = <<>>
        /\ \A st \in 1..Len(timers) : unsubCalls[st] = 1

\* C17 witness: started and stopped twice.
C17_Witness ==
    /\ ~running /\ Len(timers) = 2
    /\ unsubCalls[1] = 1 /\ unsubCalls[2] = 1 /\ unsubscribes = <<>>

\* ---- claims about a failing disk (SpecDisk) ----
\* C18: a step that writes the backlog (the append of a failed send, the
\* rewrite or clear of a settled drain) while writes fail leaves the file
\* exactly as it was and lets no exception out; the error is only logged.
C18_FailedWriteIsSwallowed ==
    [][\A r \in Ticks :
          (/\ disk # "ok"
           /\ \/ (sends[r] = "inflight" /\ sends'[r] = "failed")
              \/ (drainSt[r] = "inflight" /\ drainSt'[r] = "done")) =>
              /\ file' = file
              /\ escaped' = escaped
              /\ writeErrors']_vars

\* ---- claims over every file content (SpecAll) ----
\* C20: a record of this run is in the persisted backlog, or in the list a
\* drain has loaded, only if its own tick send failed; a record whose POST
\* was confirmed is in neither.
C20_ConfirmedRecordNeverStored ==
    \A r \in Ticks :
        (InBacklog(r, file) \/ \E t \in Ticks : r \in Range(drainQ[t])) =>
            sends[r] = "failed"

\* C20 witness: the file holds null, the POST of record 1 was confirmed,
\* resendOfflineData threw in the success handler and the catch handler
\* ran; the file still holds no record.
C20_Witness ==
    /\ sends[1] = "ok" /\ file0.kind = "null" /\ file.kind = "null"
    /\ ~isConnected /\ "promise" \in escaped

\* ---- claims about the record (SpecRec) ----
Built ==
    DOMAIN dataToSend # {}

\* C13: the keys of a built record are the enabled metric identifiers and
\* datetime, for every assignment of the nine flags and whatever was pushed.
C13_RecordKeysAreEnabledMetrics ==
    Built => DOMAIN dataToSend = {k \in Metrics : settings[k]} \cup {"datetime"}

\* C13 witness: a record built after a push for a disabled metric, with at
\* least one metric enabled.
C13_Witness ==
    /\ Built
    /\ \E i \in 1..Len(atTick.log), k \in Metrics :
          KEYS[k] = atTick.log[i].path /\ ~settings[k]
    /\ \E k \in Metrics : settings[k]

\* The deltas of log that carried path.
PushesOf(log, path) ==
    {i \in 1..Len(log) : log[i].path = path}
\* The value the claim gives to metric k for a tick that ran with the
\* deltas log delivered and the bus in state bus.
ExpectedObs(k, log, bus) ==
    IF PushesOf(log, KEYS[k]) # {}
    THEN LET last == CHOOSE i \in PushesOf(log, KEYS[k]) :
                        \A j \in PushesOf(log, KEYS[k]) : j <= i
         IN  [null |-> FALSE, value |-> log[last].value, unit |-> log[last].unit]
    ELSE IF bus[KEYS[k]].present
         THEN [null |-> FALSE, value |-> bus[KEYS[k]].value,
               unit |-> bus[KEYS[k]].units]
         ELSE NullObs

\* C19: the value of an enabled metric in a built record is the Observation
\* of the latest delta for its path since start(), if there was one, else
\* what the bus returned at the tick, else null.
C19_RecordValueIsLatestPushOrQuery ==
    Built => \A k \in Metrics :
                settings[k] => dataToSend[k] = ExpectedObs(k, atTick.log, atTick.bus)

\* C19 witness: position was pushed twice before the tick (the record holds
\* the second value), speed was never pushed and comes from the bus, depth
\* was never pushed and the bus has nothing: null.
C19_Witness ==
    /\ Built /\ settings["position"] /\ settings["speed"] /\ settings["depth"]
    /\ Len(atTick.log) = 2
    /\ atTick.log[1].path = "navigation.position"
    /\ atTick.log[2].path = "navigation.position"
    /\ dataToSend["position"].value = 2
    /\ atTick.bus["navigation.speedOverGround"].present
    /\ dataToSend["speed"] = Obs(0, "u")
    /\ dataToSend["depth"] = NullObs

\* ---- claims about the backlog under every interleaving (Spec) ----
\* The records whose tick send has failed so far.
FailedSends ==
    {r \in Ticks : sends[r] = "failed"}

\* C21: starting from an empty backlog, in every reachable state the
\* persisted backlog is no longer than the number of tick sends that have
\* failed so far, holds no record twice, and holds only records whose tick
\* send failed: no drain, overlapping or with failed resends, puts anything
\* else into it.
C21_BacklogBoundedNoDuplicates ==
    /\ Len(Backlog(file)) <= Cardinality(FailedSends)
    /\ \A i, j \in 1..Len(Backlog(file)) :
          i # j => Backlog(file)[i] # Backlog(file)[j]
    /\ Range(Backlog(file)) \subseteq FailedSends

\* C21 witness: two overlapping drains of the backlog <<1>> have settled:
\* one resent record 1 with success, the one that settled last had its
\* resend rejected and wrote <<1>> back.  (Had they not overlapped, the
\* second would have found an empty file or have settled with success.)
C21_Witness ==
    /\ sends[1] = "failed" /\ drainSt[2] = "done" /\ drainSt[3] = "done"
    /\ 1 \in resentOk
    /\ lastDrain = [q |-> <<1>>, res |-> <<"rejected">>]
    /\ file = ListFile(<<1>>)

\* ---- claims about restarts (Spec) ----
\* The timer chains that still fire: armed (timeout) or repeating (interval).
ActiveSchedulers ==
    {i \in 1..Len(timers) : timers[i].phase \in {"timeout", "interval"}}

\* C22: across start() and stop() calls at most one scheduler is active,
\* and every tick send is built from the settings of the latest start():
\* it uses that start's webhookUrl, so it is issued when that URL parses
\* and throws when it does not.
C22_OneSchedulerLatestSettings ==
    /\ [](Cardinality(ActiveSchedulers) <= 1)
    /\ [][nticks' = nticks + 1 =>
            sends'[nticks'] = IF timers[Len(timers)].urlOk
                              THEN "inflight" ELSE "threw"]_vars

====
